---------------------------- MODULE Spec2Model ----------------------------
(***************************************************************************)
(* Model of dash.py, the Streamlit "Shoes Production Dashboard".           *)
(*                                                                         *)
(* The script is rerun top to bottom by Streamlit at every user            *)
(* interaction.  One rerun is modelled as the sequence of its sections     *)
(* (load, KPIs, charts, step view, data table, summary); widget values     *)
(* and the st.cache_data cache survive from one rerun to the next.         *)
(*                                                                         *)
(* Cell values.  A cell of a DataFrame is a record [k, n, d, s]:           *)
(*   k = "num"  the number n/d, in lowest terms with d > 0                 *)
(*   k = "nan"  NaN, which is also pandas' missing value                   *)
(*   k = "inf", "ninf"  the IEEE infinities a division by zero yields      *)
(*   k = "str"  the text s (a label, or a non-numeric cell)                *)
(* Numbers are exact rationals: the rounding of binary floating point is   *)
(* not modelled.  fillna(..., inplace=True) on df["OEE"] is modelled as    *)
(* writing through to df, which is what pandas does without copy-on-write. *)
(***************************************************************************)
EXTENDS Integers, Sequences, FiniteSets, TLC

\* ------------------------------------------------------------------ values

Abs(x) == IF x < 0 THEN -x ELSE x

RECURSIVE GCD(_, _)
GCD(a, b) == IF b = 0 THEN a ELSE GCD(b, a % b)

\* the number n/d (d # 0) in lowest terms with a positive denominator
Num(n, d) ==
    LET g == GCD(Abs(n), Abs(d))
        sg == IF d < 0 THEN -1 ELSE 1
    IN  [k |-> "num", n |-> sg * (n \div g), d |-> sg * (d \div g), s |-> ""]

Int2(n) == Num(n, 1)
NaN == [k |-> "nan", n |-> 0, d |-> 1, s |-> ""]
PosInf == [k |-> "inf", n |-> 0, d |-> 1, s |-> ""]
NegInf == [k |-> "ninf", n |-> 0, d |-> 1, s |-> ""]
Text(t) == [k |-> "str", n |-> 0, d |-> 1, s |-> t]
None == [k |-> "none", n |-> 0, d |-> 1, s |-> ""]

IsNum(x) == x.k = "num"
IsNaN(x) == x.k = "nan"
IsStr(x) == x.k = "str"
\* sign of a number or an infinity
Sign(x) ==
    CASE x.k = "inf" -> 1
      [] x.k = "ninf" -> -1
      [] OTHER -> IF x.n > 0 THEN 1 ELSE IF x.n < 0 THEN -1 ELSE 0

\* a < b and a <= b on numbers and infinities; any comparison with NaN is False
Lt(a, b) ==
    CASE IsNaN(a) \/ IsNaN(b) -> FALSE
      [] a.k = "inf" -> FALSE
      [] b.k = "ninf" -> FALSE
      [] a.k = "ninf" -> TRUE
      [] b.k = "inf" -> TRUE
      [] OTHER -> a.n * b.d < b.n * a.d

Ge(a, b) == ~IsNaN(a) /\ ~IsNaN(b) /\ ~Lt(a, b)

\* elementwise ==: NaN equals nothing, itself included
Eq(a, b) == ~IsNaN(a) /\ ~IsNaN(b) /\ a = b

Add(a, b) ==
    CASE IsNaN(a) \/ IsNaN(b) -> NaN
      [] a.k = "inf" -> IF b.k = "ninf" THEN NaN ELSE PosInf
      [] a.k = "ninf" -> IF b.k = "inf" THEN NaN ELSE NegInf
      [] b.k = "inf" -> PosInf
      [] b.k = "ninf" -> NegInf
      [] OTHER -> Num(a.n * b.d + b.n * a.d, a.d * b.d)

Neg(a) ==
    CASE IsNaN(a) -> NaN
      [] a.k = "inf" -> NegInf
      [] a.k = "ninf" -> PosInf
      [] OTHER -> Num(-a.n, a.d)

Sub(a, b) == Add(a, Neg(b))

Mul(a, b) ==
    CASE IsNaN(a) \/ IsNaN(b) -> NaN
      [] IsNum(a) /\ IsNum(b) -> Num(a.n * b.n, a.d * b.d)
      [] Sign(a) * Sign(b) = 0 -> NaN
      [] Sign(a) * Sign(b) > 0 -> PosInf
      [] OTHER -> NegInf

\* float division: x/0 is an infinity of x's sign, 0/0 is NaN, nothing raises
Div(a, b) ==
    CASE IsNaN(a) \/ IsNaN(b) -> NaN
      [] IsNum(a) /\ IsNum(b) /\ b.n # 0 -> Num(a.n * b.d, a.d * b.n)
      [] IsNum(a) /\ IsNum(b) ->
            IF a.n = 0 THEN NaN ELSE IF a.n > 0 THEN PosInf ELSE NegInf
      [] ~IsNum(a) /\ ~IsNum(b) -> NaN
      [] IsNum(a) -> Int2(0)
      [] OTHER -> IF Sign(a) * Sign(b) >= 0 THEN a ELSE Neg(a)

Zero == Int2(0)
One == Int2(1)

\* Series.clip(lower, upper): NaN stays NaN
clip_lower(x, lower) == IF Lt(x, lower) THEN lower ELSE x
\* (mutant) the upper bound is not applied
clip_no_upper(x, lower, upper) == IF IsNaN(x) THEN x ELSE clip_lower(x, lower)
clip(x, lower, upper) ==
    IF IsNaN(x) THEN x
    ELSE LET y == clip_lower(x, lower) IN IF Lt(upper, y) THEN upper ELSE y

\* Series.fillna(value)
fillna(x, value) == IF IsNaN(x) THEN value ELSE x


\* ------------------------------------------------------------ DataFrames

\* the ten columns of 'AS2 5001.xlsx' the script reads, in sheet order
STEPS == "Steps"
STATUS == "Running Status"
LOT == "Current lot Number"
MATERIAL == "Material Used (KG)"
WASTE == "Waste Materials (KG)"
RUN == "Current Lot Run Time (Hours)"
EXPECTED == "Expected Lot Run Time (Hours)"
DOWN == "Process Down time"
FAILURE == "Failure Rate"
UNITS == "Units produced"
RawColumns == <<STEPS, STATUS, LOT, MATERIAL, WASTE, RUN, EXPECTED, DOWN, FAILURE, UNITS>>

Range(seq) == {seq[i] : i \in 1..Len(seq)}

\* a DataFrame is [columns, index, rows]: the column labels in order, the row
\* labels in order, and per position the row as a function column -> cell
HasColumn(df, c) == c \in Range(df.columns)

\* df[c]: the Series of column c, by position
Column(df, c) == [i \in 1..Len(df.rows) |-> df.rows[i][c]]

\* df[c] = series: overwrites column c, or appends it as the last column
SetColumn(df, c, series) ==
    [columns |-> IF HasColumn(df, c) THEN df.columns ELSE Append(df.columns, c),
     index |-> df.index,
     rows |-> [i \in 1..Len(df.rows) |->
                 [x \in (DOMAIN df.rows[i]) \cup {c} |->
                     IF x = c THEN series[i] ELSE df.rows[i][x]]]]

\* elementwise arithmetic of two Series, and of a scalar and a Series
SeriesDiv(a, b) == [i \in DOMAIN a |-> Div(a[i], b[i])]
SeriesSub(a, b) == [i \in DOMAIN a |-> Sub(a[i], b[i])]
SeriesMul(a, b) == [i \in DOMAIN a |-> Mul(a[i], b[i])]
ScalarMinus(x, a) == [i \in DOMAIN a |-> Sub(x, a[i])]
SeriesClip(a, lower, upper) == [i \in DOMAIN a |-> clip(a[i], lower, upper)]
SeriesFillna(a, value) == [i \in DOMAIN a |-> fillna(a[i], value)]

\* arithmetic on a Series holding text raises TypeError
HasText(a) == \E i \in DOMAIN a : IsStr(a[i])

\* Series.to_dict(): row label -> cell
to_dict(df, c) ==
    [l \in Range(df.index) |->
        LET i == CHOOSE j \in 1..Len(df.index) : df.index[j] = l IN df.rows[i][c]]

\* ------------------------------------------------------------- load_data

Availability(df) == SeriesDiv(Column(df, RUN), Column(df, EXPECTED))
Performance(df) ==
    SeriesDiv(SeriesSub(Column(df, EXPECTED), Column(df, DOWN)), Column(df, EXPECTED))
Quality(df) == ScalarMinus(One, Column(df, FAILURE))

\* lines 15-17: the three ratios, appended as columns
set_availability(df) == SetColumn(df, "Availability", Availability(df))
set_performance(df) == SetColumn(df, "Performance", Performance(df))
set_quality(df) == SetColumn(df, "Quality", Quality(df))

\* lines 19-21: df[c] = df[c].clip(0, 1)
clip_column(df, c) == SetColumn(df, c, SeriesClip(Column(df, c), Zero, One))

\* line 24
set_oee(df) ==
    SetColumn(df, "OEE",
        SeriesMul(SeriesMul(Column(df, "Availability"), Column(df, "Performance")),
                  Column(df, "Quality")))

\* line 25: df["OEE"].fillna(0, inplace=True)
fill_oee(df) == SetColumn(df, "OEE", SeriesFillna(Column(df, "OEE"), Zero))

\* lines 15-25 on a frame whose columns are present and numeric
compute_oee(df) ==
    fill_oee(set_oee(
        clip_column(clip_column(clip_column(
            set_quality(set_performance(set_availability(df))),
            "Availability"), "Performance"), "Quality")))

\* (mutant) text in a time or failure-rate column goes unnoticed
load_error_keys_only(df) ==
    IF \E c \in Range(RawColumns) : ~HasColumn(df, c) THEN "KeyError" ELSE ""

\* the exception load_data raises on this sheet, "" when it raises none:
\* df[c] of an absent column is a KeyError, arithmetic on text a TypeError
load_error(df) ==
    LET bad(c) == HasColumn(df, c) /\ HasText(Column(df, c))
        absent(c) == ~HasColumn(df, c)
    IN  CASE absent(RUN) \/ absent(EXPECTED) -> "KeyError"
          [] bad(RUN) \/ bad(EXPECTED) -> "TypeError"
          [] absent(DOWN) -> "KeyError"
          [] bad(DOWN) -> "TypeError"
          [] absent(FAILURE) -> "KeyError"
          [] bad(FAILURE) -> "TypeError"
          [] \E c \in {STEPS, STATUS, LOT, MATERIAL, WASTE, UNITS} : absent(c) -> "KeyError"
          [] OTHER -> ""

DictKeys ==
    [Steps |-> STEPS, Running_Status |-> STATUS, Current_Lot_Number |-> LOT,
     Material_Used |-> MATERIAL, Waste_Materials |-> WASTE,
     Current_Lot_Run_Time |-> RUN, Expected_Lot_Run_Time |-> EXPECTED,
     Process_Down_Time |-> DOWN, Failure_Rate |-> FAILURE, Units_Produced |-> UNITS,
     Availability |-> "Availability", Performance |-> "Performance",
     Quality |-> "Quality", OEE |-> "OEE"]

make_data_dict(df) == [key \in DOMAIN DictKeys |-> to_dict(df, DictKeys[key])]

\* the body of load_data on the sheet read_excel returned
load_data(sheet) ==
    IF load_error(sheet) # ""
    THEN [raised |-> load_error(sheet)]
    ELSE LET df == compute_oee(sheet)
         IN  [raised |-> "", df |-> df, data_dict |-> make_data_dict(df)]


\* ------------------------------------------------- reductions of a Series

RECURSIVE SumFrom(_, _)
\* sum of the non-NaN cells of positions i..Len (skipna), 0 when there are none
SumFrom(a, i) ==
    IF i > Len(a) THEN Zero
    ELSE IF IsNaN(a[i]) THEN SumFrom(a, i + 1)
    ELSE Add(a[i], SumFrom(a, i + 1))

Series_sum(a) == SumFrom(a, 1)
Count(a) == Cardinality({i \in DOMAIN a : ~IsNaN(a[i])})
\* Series.mean(): NaN over no cells
Series_mean(a) == IF Count(a) = 0 THEN NaN ELSE Div(Series_sum(a), Int2(Count(a)))

\* positions of the non-NaN cells no other cell is below (above)
MinPositions(a) ==
    {i \in DOMAIN a : ~IsNaN(a[i]) /\ \A j \in DOMAIN a : ~Lt(a[j], a[i])}
MaxPositions(a) ==
    {i \in DOMAIN a : ~IsNaN(a[i]) /\ \A j \in DOMAIN a : ~Lt(a[i], a[j])}
First(S) == CHOOSE i \in S : \A j \in S : i <= j
Series_min(a) == a[First(MinPositions(a))]
Series_max(a) == a[First(MaxPositions(a))]
\* idxmin/idxmax give the row label of the first occurrence
idxmin(df, c) == df.index[First(MinPositions(Column(df, c)))]
idxmax(df, c) == df.index[First(MaxPositions(Column(df, c)))]
\* df.loc[label, c]
loc(df, label, c) ==
    LET i == CHOOSE j \in 1..Len(df.index) : df.index[j] = label IN df.rows[i][c]

RECURSIVE UniqueFrom(_, _, _)
UniqueFrom(a, i, seen) ==
    IF i > Len(a) THEN seen
    ELSE IF a[i] \in Range(seen) THEN UniqueFrom(a, i + 1, seen)
    ELSE UniqueFrom(a, i + 1, Append(seen, a[i]))
\* Series.unique(): the distinct cells in order of first appearance, NaN once
unique(a) == UniqueFrom(a, 1, <<>>)

RECURSIVE Positions(_, _)
\* the positions i..Len of a boolean mask that are True, ascending
Positions(mask, i) ==
    IF i > Len(mask) THEN <<>>
    ELSE IF mask[i] THEN <<i>> \o Positions(mask, i + 1)
    ELSE Positions(mask, i + 1)

\* df[mask]: the rows whose mask is True, in order, keeping their labels
BooleanIndex(df, mask) ==
    LET keep == Positions(mask, 1)
    IN  [columns |-> df.columns,
         index |-> [k \in 1..Len(keep) |-> df.index[keep[k]]],
         rows |-> [k \in 1..Len(keep) |-> df.rows[keep[k]]]]

\* df[columns_order]: the same rows under reordered column labels
Reorder(df, columns_order) ==
    [columns |-> columns_order, index |-> df.index,
     rows |-> [i \in 1..Len(df.rows) |-> [c \in Range(columns_order) |-> df.rows[i][c]]]]


\* ------------------------------------------------- sections of the script

NoFrame == [columns |-> <<>>, index |-> <<>>, rows |-> <<>>]

\* a column whose cells are all text sums to a text, one mixing text with
\* anything else raises in sum()
AllText(a) == Len(a) > 0 /\ \A i \in DOMAIN a : IsStr(a[i])
MixedText(a) == HasText(a) /\ ~AllText(a)

\* the exception the KPI section (lines 63-129) raises, "" when none
kpi_error(df) ==
    LET units == Column(df, UNITS)
        material == Column(df, MATERIAL)
        waste == Column(df, WASTE)
    IN  CASE MixedText(units) \/ MixedText(material) \/ MixedText(waste) -> "TypeError"
          [] AllText(material) -> "TypeError"
          [] AllText(waste) /\ Lt(Zero, Series_sum(material)) -> "TypeError"
          [] AllText(units) \/ AllText(waste) -> "ValueError"
          [] OTHER -> ""

\* lines 63-70
kpi_section(df) ==
    LET total_material_used == Series_sum(Column(df, MATERIAL))
        total_waste == Series_sum(Column(df, WASTE))
    IN  [avg_oee |-> Series_mean(Column(df, "OEE")),
         avg_availability |-> Series_mean(Column(df, "Availability")),
         avg_performance |-> Series_mean(Column(df, "Performance")),
         avg_quality |-> Series_mean(Column(df, "Quality")),
         total_units |-> Series_sum(Column(df, UNITS)),
         total_material_used |-> total_material_used,
         total_waste |-> total_waste,
         waste_percentage |->
            IF Lt(Zero, total_material_used)
            THEN Mul(Div(total_waste, total_material_used), Int2(100))
            ELSE Zero]

NoKpi == [avg_oee |-> None, avg_availability |-> None, avg_performance |-> None,
          avg_quality |-> None, total_units |-> None, total_material_used |-> None,
          total_waste |-> None, waste_percentage |-> None]

\* (mutant) the ratio is stored over the material column
material_efficiency_overwrite(df) ==
    SetColumn(df, MATERIAL,
        SeriesDiv(SeriesSub(Column(df, MATERIAL), Column(df, WASTE)), Column(df, MATERIAL)))

\* line 234
material_efficiency(df) ==
    SetColumn(df, "Material_Efficiency",
        SeriesDiv(SeriesSub(Column(df, MATERIAL), Column(df, WASTE)), Column(df, MATERIAL)))

\* st.selectbox: the widget's value, the first option until the user picks
\* one, None when there is no option
selectbox(options, value) ==
    IF value # None THEN value
    ELSE IF Len(options) = 0 THEN None ELSE options[1]

\* df[df['Steps'] == selected_step]
step_rows(df, selected_step) ==
    BooleanIndex(df, [i \in 1..Len(df.rows) |-> Eq(df.rows[i][STEPS], selected_step)])

NoRow == [c \in {} |-> None]

\* .iloc[0]: the first row, IndexError on an empty frame
iloc0(frame) == IF Len(frame.rows) = 0 THEN NoRow ELSE frame.rows[1]

\* st.multiselect: the widget's value, by default every option
multiselect(options, value) == IF value # {None} THEN value ELSE Range(options)

\* Series.isin(values)
isin(a, values) == [i \in DOMAIN a |-> a[i] \in values]

\* the slider's settings (lines 324-327)
slider_min == 0
slider_max == 100
slider_step == 5
slider_default == 0
SliderValues == {v \in slider_min..slider_max : (v - slider_min) % slider_step = 0}

\* st.slider(...) / 100: the widget's value, 0 until the user moves it
slider(value) == Num(IF value = -1 THEN slider_default ELSE value, 100)

\* (mutant) the threshold itself is excluded
meets_threshold_strict(oee, oee_threshold) == Lt(oee_threshold, oee)
\* line 334: df['OEE'] >= oee_threshold
meets_threshold(oee, oee_threshold) == Ge(oee, oee_threshold)

\* (mutant) a row passes when either condition holds
filter_mask_either(df, status_filter, oee_threshold) ==
    [i \in 1..Len(df.rows) |->
        \/ df.rows[i][STATUS] \in status_filter
        \/ meets_threshold(df.rows[i]["OEE"], oee_threshold)]

\* lines 332-335
filter_mask(df, status_filter, oee_threshold) ==
    LET in_status == isin(Column(df, STATUS), status_filter)
        above == [i \in 1..Len(df.rows) |-> meets_threshold(df.rows[i]["OEE"], oee_threshold)]
    IN  [i \in 1..Len(df.rows) |-> in_status[i] /\ above[i]]

FrontColumns == <<"Steps", "OEE", "Availability", "Performance", "Quality">>

\* lines 338-339
columns_order(frame) ==
    FrontColumns \o SelectSeq(frame.columns, LAMBDA c : c \notin Range(FrontColumns))

\* lines 332-339
apply_filters(df, status_filter, oee_threshold) ==
    LET picked == BooleanIndex(df, filter_mask(df, status_filter, oee_threshold))
    IN  Reorder(picked, columns_order(picked))

\* len(frame) > 0
has_rows(frame) == Len(frame.rows) > 0

NoSummary ==
    [state |-> "", total_steps |-> None, average_oee |-> None,
     total_units |-> None, total_material |-> None, oee_min |-> None,
     oee_max |-> None, best_step |-> None, lowest_step |-> None,
     average_waste_rate |-> None]

\* (mutant) no guard: an empty frame is summarised as zeros
summary_statistics_zero(filtered_df) ==
    [state |-> "figures",
     total_steps |-> Int2(Len(filtered_df.rows)),
     average_oee |-> fillna(Series_mean(Column(filtered_df, "OEE")), Zero),
     total_units |-> Series_sum(Column(filtered_df, UNITS)),
     total_material |-> Series_sum(Column(filtered_df, MATERIAL)),
     oee_min |-> IF has_rows(filtered_df) THEN Series_min(Column(filtered_df, "OEE")) ELSE Zero,
     oee_max |-> IF has_rows(filtered_df) THEN Series_max(Column(filtered_df, "OEE")) ELSE Zero,
     best_step |-> IF has_rows(filtered_df)
                   THEN loc(filtered_df, idxmax(filtered_df, "OEE"), STEPS) ELSE NaN,
     lowest_step |-> IF has_rows(filtered_df)
                     THEN loc(filtered_df, idxmin(filtered_df, "OEE"), STEPS) ELSE NaN,
     average_waste_rate |->
         Mul(Div(Series_sum(Column(filtered_df, WASTE)),
                 Series_sum(Column(filtered_df, MATERIAL))), Int2(100))]

\* lines 361-381: the figures written for a non-empty frame, else the
\* "no ... match the current filter criteria" messages
summary_statistics(filtered_df) ==
    IF has_rows(filtered_df)
    THEN [state |-> "figures",
          total_steps |-> Int2(Len(filtered_df.rows)),
          average_oee |-> Series_mean(Column(filtered_df, "OEE")),
          total_units |-> Series_sum(Column(filtered_df, UNITS)),
          total_material |-> Series_sum(Column(filtered_df, MATERIAL)),
          oee_min |-> Series_min(Column(filtered_df, "OEE")),
          oee_max |-> Series_max(Column(filtered_df, "OEE")),
          best_step |-> loc(filtered_df, idxmax(filtered_df, "OEE"), STEPS),
          lowest_step |-> loc(filtered_df, idxmin(filtered_df, "OEE"), STEPS),
          average_waste_rate |->
              Mul(Div(Series_sum(Column(filtered_df, WASTE)),
                      Series_sum(Column(filtered_df, MATERIAL))), Int2(100))]
    ELSE [state |-> "no data", total_steps |-> None, average_oee |-> None,
          total_units |-> None, total_material |-> None, oee_min |-> None,
          oee_max |-> None, best_step |-> None, lowest_step |-> None,
          average_waste_rate |-> None]


\* ---------------------------------------------------------------- sheets

MaxRows == 2
MaxReads == 2

RangeIndex(n) == [i \in 1..n |-> i - 1]

Row(step, status, material, waste, run, expected, down, failure, units) ==
    [c \in Range(RawColumns) |->
        CASE c = STEPS -> step
          [] c = STATUS -> status
          [] c = LOT -> Text("L1")
          [] c = MATERIAL -> material
          [] c = WASTE -> waste
          [] c = RUN -> run
          [] c = EXPECTED -> expected
          [] c = DOWN -> down
          [] c = FAILURE -> failure
          [] OTHER -> units]

Sheet(rows) == [columns |-> RawColumns, index |-> RangeIndex(Len(rows)), rows |-> rows]

\* one-row sheets over every combination of the time and failure-rate cells
RunValues == {Int2(-1), Int2(0), Int2(8), Int2(12), NaN}
ExpectedValues == {Int2(-10), Int2(0), Int2(10), NaN}
DownValues == {Int2(-1), Int2(0), Int2(1), Int2(11)}
FailureValues == {Num(-1, 2), Int2(0), Num(1, 50), Num(3, 2), NaN}
OneRowSheets ==
    {Sheet(<<Row(Text("A"), Text("Running"), Int2(10), Int2(1), run, expected, down,
                 failure, Int2(100))>>) :
        run \in RunValues, expected \in ExpectedValues, down \in DownValues,
        failure \in FailureValues}

\* rows for the sheets of several rows: repeated and missing steps, both
\* statuses, zero expected time, a missing failure rate, text in a number column
RowPool ==
    {Row(Text("A"), Text("Running"), Int2(10), Int2(1), Int2(8), Int2(10), Int2(1),
         Num(1, 50), Int2(100)),
     Row(Text("B"), Text("Stopped"), Int2(10), Int2(2), Int2(1), Int2(2), Int2(0),
         Int2(0), Int2(50)),
     Row(Text("A"), Text("Stopped"), Int2(5), Int2(0), Int2(12), Int2(10), Int2(0),
         Int2(0), Int2(70)),
     Row(Text("B"), Text("Running"), Int2(0), Int2(0), Int2(0), Int2(0), Int2(0),
         NaN, Int2(0)),
     Row(NaN, Text("Running"), Int2(4), Int2(1), Int2(5), Int2(0), Int2(-1),
         Num(1, 50), NaN),
     Row(Text("A"), Text("Running"), Text("abc"), Int2(1), Int2(8), Int2(10), Int2(1),
         Int2(0), Int2(10)),
     Row(Text("B"), Text("Stopped"), Int2(10), Int2(1), Text("n/a"), Int2(10), Int2(1),
         Int2(0), Int2(10))}

PoolSheets ==
    UNION {{Sheet(rows) : rows \in [1..n -> RowPool]} : n \in 0..MaxRows}

\* a sheet without one of the ten columns
DropColumn(sheet, c) ==
    [columns |-> SelectSeq(sheet.columns, LAMBDA x : x # c),
     index |-> sheet.index,
     rows |-> [i \in 1..Len(sheet.rows) |->
                 [x \in (DOMAIN sheet.rows[i]) \ {c} |-> sheet.rows[i][x]]]]

DefectiveSheets ==
    {DropColumn(Sheet(<<Row(Text("A"), Text("Running"), Int2(10), Int2(1), Int2(8),
                            Int2(10), Int2(1), Num(1, 50), Int2(100))>>), c) :
        c \in Range(RawColumns)}

Sheets == OneRowSheets \cup PoolSheets \cup DefectiveSheets

\* the slider positions the user is taken to move to
ThresholdChoices == {v \in SliderValues : v \in {0, 50, 100}}

\* ------------------------------------------------------------ the program

VARIABLES
    sheet,          \* the content of 'AS2 5001.xlsx'
    cache,          \* st.cache_data's entry for load_data
    reads,          \* how often read_excel has run
    pc,             \* the section the running script is at
    raised,         \* the exception that stopped the run, "" when none
    df, data_dict,  \* the script's globals of line 49
    returned,       \* the frame load_data returned to this run
    first,          \* the frame load_data's first completed call returned
    kpi,            \* the figures of lines 63-70
    w_step, w_status, w_threshold,  \* the widgets' values, kept across reruns
    rendered,       \* the widgets this run has put on the page
    selected_step, step_data,
    status_filter, oee_threshold, filtered_df,
    summary         \* what the summary statistics section wrote

vars == <<sheet, cache, reads, pc, raised, df, data_dict, returned, first, kpi,
          w_step, w_status, w_threshold, rendered, selected_step, step_data,
          status_filter, oee_threshold, filtered_df, summary>>

widgets == <<w_step, w_status, w_threshold>>

EmptyCache == [full |-> FALSE, df |-> NoFrame, data_dict |-> <<>>]

Init ==
    /\ sheet \in Sheets
    /\ cache = EmptyCache
    /\ reads = 0
    /\ pc = "load"
    /\ raised = ""
    /\ df = NoFrame
    /\ data_dict = <<>>
    /\ returned = NoFrame
    /\ first = NoFrame
    /\ kpi = NoKpi
    /\ w_step = None
    /\ w_status = {None}
    /\ w_threshold = -1
    /\ rendered = {}
    /\ selected_step = None
    /\ step_data = NoRow
    /\ status_filter = {None}
    /\ oee_threshold = None
    /\ filtered_df = NoFrame
    /\ summary = NoSummary

\* an exception ends the run
Raise(e) == pc' = "error" /\ raised' = e

\* (mutant) the entry is never found
cache_never_hit(c) == FALSE
\* st.cache_data keeps a pickled copy: a hit is a stored entry
cache_hit(c) == c.full
\* what the entry holds after the script changed the frame it was handed
cache_after_write(c, frame) == c

\* line 49: df, data_dict = load_data(), through st.cache_data
LoadData ==
    /\ pc = "load"
    /\ IF cache_hit(cache)
       THEN /\ df' = cache.df
            /\ data_dict' = cache.data_dict
            /\ returned' = cache.df
            /\ pc' = "kpi"
            /\ UNCHANGED <<cache, reads, raised, first>>
       ELSE /\ reads < MaxReads
            /\ reads' = reads + 1
            /\ LET result == load_data(sheet)
               IN  IF result.raised # ""
                   THEN /\ Raise(result.raised)
                        /\ UNCHANGED <<cache, df, data_dict, returned, first>>
                   ELSE /\ cache' = [full |-> TRUE, df |-> result.df,
                                     data_dict |-> result.data_dict]
                        /\ df' = result.df
                        /\ data_dict' = result.data_dict
                        /\ returned' = result.df
                        /\ first' = IF first = NoFrame THEN result.df ELSE first
                        /\ pc' = "kpi"
                        /\ UNCHANGED raised
    /\ UNCHANGED <<sheet, kpi, widgets, rendered, selected_step, step_data,
                   status_filter, oee_threshold, filtered_df, summary>>

\* lines 59-131
KpiSection ==
    /\ pc = "kpi"
    /\ IF kpi_error(df) # ""
       THEN Raise(kpi_error(df)) /\ UNCHANGED kpi
       ELSE kpi' = kpi_section(df) /\ pc' = "charts" /\ UNCHANGED raised
    /\ UNCHANGED <<sheet, cache, reads, df, data_dict, returned, first, widgets,
                   rendered, selected_step, step_data, status_filter, oee_threshold,
                   filtered_df, summary>>

\* lines 133-239
ChartsSection ==
    /\ pc = "charts"
    /\ df' = material_efficiency(df)
    /\ cache' = cache_after_write(cache, df')
    /\ pc' = "step"
    /\ UNCHANGED <<sheet, reads, raised, data_dict, returned, first, kpi, widgets,
                   rendered, selected_step, step_data, status_filter, oee_threshold,
                   filtered_df, summary>>

\* lines 241-305
StepView ==
    /\ pc = "step"
    /\ rendered' = rendered \cup {"selectbox"}
    /\ selected_step' = selectbox(unique(Column(df, STEPS)), w_step)
    /\ LET found == step_rows(df, selected_step')
       IN  IF has_rows(found)
           THEN step_data' = iloc0(found) /\ pc' = "table" /\ UNCHANGED raised
           ELSE Raise("IndexError") /\ UNCHANGED step_data
    /\ UNCHANGED <<sheet, cache, reads, df, data_dict, returned, first, kpi, widgets,
                   status_filter, oee_threshold, filtered_df, summary>>

\* lines 309-355
DataTable ==
    /\ pc = "table"
    /\ rendered' = rendered \cup {"multiselect", "slider"}
    /\ status_filter' = multiselect(unique(Column(df, STATUS)), w_status)
    /\ oee_threshold' = slider(w_threshold)
    /\ filtered_df' = apply_filters(df, status_filter', oee_threshold')
    /\ pc' = "summary"
    /\ UNCHANGED <<sheet, cache, reads, raised, df, data_dict, returned, first, kpi,
                   widgets, selected_step, step_data, summary>>

\* lines 357-381
SummaryStatistics ==
    /\ pc = "summary"
    /\ summary' = summary_statistics(filtered_df)
    /\ pc' = "done"
    /\ UNCHANGED <<sheet, cache, reads, raised, df, data_dict, returned, first, kpi,
                   widgets, rendered, selected_step, step_data, status_filter,
                   oee_threshold, filtered_df>>

\* Streamlit starts the script again from the top with fresh globals
StartRun ==
    /\ pc' = "load"
    /\ raised' = ""
    /\ df' = NoFrame
    /\ data_dict' = <<>>
    /\ returned' = NoFrame
    /\ kpi' = NoKpi
    /\ rendered' = {}
    /\ selected_step' = None
    /\ step_data' = NoRow
    /\ status_filter' = {None}
    /\ oee_threshold' = None
    /\ filtered_df' = NoFrame
    /\ summary' = NoSummary
    /\ UNCHANGED <<sheet, cache, reads, first>>

\* A widget can be used as soon as the run has put it on the page; its new
\* value stops the run and starts the script again.

\* the user picks a step in the selectbox
SelectStep ==
    /\ "selectbox" \in rendered
    /\ \E s \in Range(unique(Column(df, STEPS))) : w_step' = s
    /\ w_step' # selectbox(unique(Column(df, STEPS)), w_step)
    /\ UNCHANGED <<w_status, w_threshold>>
    /\ StartRun

\* the user changes the selection of the multiselect
ChangeStatusFilter ==
    /\ "multiselect" \in rendered
    /\ \E chosen \in SUBSET Range(unique(Column(df, STATUS))) : w_status' = chosen
    /\ w_status' # multiselect(unique(Column(df, STATUS)), w_status)
    /\ UNCHANGED <<w_step, w_threshold>>
    /\ StartRun

\* the user moves the slider
MoveSlider ==
    /\ "slider" \in rendered
    /\ \E v \in ThresholdChoices : w_threshold' = v
    /\ slider(w_threshold') # slider(w_threshold)
    /\ UNCHANGED <<w_step, w_status>>
    /\ StartRun

\* the user asks for a rerun
Rerun ==
    /\ pc # "load"
    /\ UNCHANGED widgets
    /\ StartRun

Next ==
    \/ LoadData
    \/ KpiSection
    \/ ChartsSection
    \/ StepView
    \/ DataTable
    \/ SummaryStatistics
    \/ SelectStep
    \/ ChangeStatusFilter
    \/ MoveSlider
    \/ Rerun

Spec == Init /\ [][Next]_vars


\* ----------------------------------------------------------------- claims

MetricColumns == {"Availability", "Performance", "Quality", "OEE"}
LoadColumns == {STEPS, STATUS, LOT, MATERIAL, WASTE, RUN, EXPECTED, DOWN, FAILURE, UNITS}
               \cup MetricColumns
TimeColumns == {RUN, EXPECTED, DOWN, FAILURE}
NumericColumns == TimeColumns \cup {MATERIAL, WASTE, UNITS}

\* a defined number between 0 and 1
InUnitInterval(x) == IsNum(x) /\ 0 <= x.n /\ x.n <= x.d

\* x is the number q[1]/q[2]
SameNumber(x, q) == IsNum(x) /\ x.n * q[2] = q[1] * x.d

\* n/d (d > 0) brought into [0,1]
Clamp01(n, d) == IF n < 0 THEN <<0, 1>> ELSE IF n > d THEN <<1, 1>> ELSE <<n, d>>

SchemaDefect == \E c \in Range(RawColumns) : ~HasColumn(sheet, c)
TextIn(columns) ==
    \E i \in 1..Len(sheet.rows) : \E c \in columns :
        HasColumn(sheet, c) /\ IsStr(sheet.rows[i][c])

FilterDone == pc \in {"summary", "done"}

\* C1: every record of the table load_data returns has Availability,
\* Performance, Quality and OEE each a defined number in [0,1], whatever the
\* raw cells are.  (Stated as claimed; the code leaves a 0/0 or a missing
\* input as NaN in the three ratios.)
C1_MetricsInUnitInterval ==
    \A i \in 1..Len(returned.rows) : \A c \in MetricColumns :
        InUnitInterval(returned.rows[i][c])

\* C2: a record whose Expected Lot Run Time is 0 never makes the load raise
\* and has OEE exactly 0, whatever its other raw cells are.  (Stated as
\* claimed; with a positive run time and a negative down time both ratios
\* are +inf, clip to 1, and OEE is the quality.)
C2_ZeroExpectedGivesZeroOEE ==
    /\ (/\ pc # "load"
        /\ ~SchemaDefect /\ ~TextIn(NumericColumns)
        /\ \E i \in 1..Len(sheet.rows) : sheet.rows[i][EXPECTED] = Zero)
       => returned # NoFrame
    /\ \A i \in 1..Len(returned.rows) :
          returned.rows[i][EXPECTED] = Zero => returned.rows[i]["OEE"] = Zero

\* C3: for a record with Expected Lot Run Time > 0 and run time, down time
\* and failure rate present, Availability = clamp01(run/expected),
\* Performance = clamp01((expected - down)/expected), Quality =
\* clamp01(1 - failure rate) and OEE is the product of the three.
C3_MetricsOfRegularRecord ==
    \A i \in 1..Len(returned.rows) :
        LET r == returned.rows[i]
            run == r[RUN]
            ex == r[EXPECTED]
            down == r[DOWN]
            fr == r[FAILURE]
            a == Clamp01(run.n * ex.d, run.d * ex.n)
            p == Clamp01(ex.n * down.d - down.n * ex.d, down.d * ex.n)
            q == Clamp01(fr.d - fr.n, fr.d)
        IN  (IsNum(run) /\ IsNum(ex) /\ IsNum(down) /\ IsNum(fr) /\ ex.n > 0)
            => /\ SameNumber(r["Availability"], a)
               /\ SameNumber(r["Performance"], p)
               /\ SameNumber(r["Quality"], q)
               /\ SameNumber(r["OEE"], <<a[1] * p[1] * q[1], a[2] * p[2] * q[2]>>)

\* the spec's two examples in one loaded table: 8/10/1/0.02 gives 0.8, 0.9,
\* 0.98, 0.7056, and run 12 of expected 10 gives availability 1.0
C3_Witness ==
    /\ \E i \in 1..Len(returned.rows) :
          LET r == returned.rows[i]
          IN  /\ r[RUN] = Int2(8) /\ r[EXPECTED] = Int2(10) /\ r[DOWN] = Int2(1)
              /\ r[FAILURE] = Num(2, 100)
              /\ r["Availability"] = Num(8, 10) /\ r["Performance"] = Num(9, 10)
              /\ r["Quality"] = Num(98, 100) /\ r["OEE"] = Num(7056, 10000)
    /\ \E i \in 1..Len(returned.rows) :
          LET r == returned.rows[i]
          IN  r[RUN] = Int2(12) /\ r[EXPECTED] = Int2(10) /\ r["Availability"] = One

C5_EmptyAggregateIsNeverANumber ==
    /\ (kpi # NoKpi /\ ~has_rows(df)) => \A f \in DOMAIN kpi : ~IsNum(kpi[f])
    /\ (summary # NoSummary /\ ~has_rows(filtered_df)) => summary.state = "no data"

\* C5 (amended): the summary statistics over an empty filtered subset are the
\* "no data" state, without any figure, and over a subset with rows they are
\* the figures (defined numbers for count, mean, sums, min and max of OEE);
\* the section never raises.  The KPI section has no such guard: over a table
\* without rows its means are NaN and its sums and waste percentage are 0.
C5_SummaryGuardsTheEmptySubset ==
    /\ summary # NoSummary
          => /\ pc = "done" /\ raised = ""
             /\ IF has_rows(filtered_df)
                THEN /\ summary.state = "figures"
                     /\ \A f \in {"total_steps", "average_oee", "oee_min", "oee_max",
                                  "total_units", "total_material"} : IsNum(summary[f])
                     /\ \E i \in 1..Len(filtered_df.rows) :
                           /\ filtered_df.rows[i]["OEE"] = summary.oee_max
                           /\ filtered_df.rows[i][STEPS] = summary.best_step
                     /\ \E i \in 1..Len(filtered_df.rows) :
                           /\ filtered_df.rows[i]["OEE"] = summary.oee_min
                           /\ filtered_df.rows[i][STEPS] = summary.lowest_step
                     /\ \A i \in 1..Len(filtered_df.rows) :
                           /\ ~Lt(summary.oee_max, filtered_df.rows[i]["OEE"])
                           /\ ~Lt(filtered_df.rows[i]["OEE"], summary.oee_min)
                ELSE /\ summary.state = "no data"
                     /\ \A f \in DOMAIN summary : f # "state" => summary[f] = None
    /\ pc = "summary"
          => summary_statistics(filtered_df).state =
                IF has_rows(filtered_df) THEN "figures" ELSE "no data"
    /\ (kpi # NoKpi /\ ~has_rows(df))
          => /\ IsNaN(kpi.avg_oee) /\ IsNaN(kpi.avg_availability)
             /\ kpi.total_units = Zero /\ kpi.total_material_used = Zero
             /\ kpi.waste_percentage = Zero

\* a table with rows of which the filters keep none
C5_Witness ==
    /\ pc = "done" /\ has_rows(df) /\ ~has_rows(filtered_df)
    /\ summary.state = "no data"

AllStatuses == Range(unique(Column(df, STATUS)))

\* C7: with every distinct Running Status selected and a threshold of 0 the
\* filtered table has the rows of the computed table, in the same order with
\* the same labels and the same values.
C7_DefaultFiltersKeepEveryRow ==
    (FilterDone /\ status_filter = AllStatuses /\ oee_threshold = Zero)
        => /\ filtered_df.index = returned.index
           /\ Len(filtered_df.rows) = Len(returned.rows)
           /\ Range(filtered_df.columns) = Range(df.columns)
           /\ \A i \in 1..Len(filtered_df.rows) :
                 /\ \A c \in Range(returned.columns) :
                       filtered_df.rows[i][c] = returned.rows[i][c]
                 /\ \A c \in Range(df.columns) : filtered_df.rows[i][c] = df.rows[i][c]

\* the user came back to the full selection and threshold 0 on a two-row
\* table one of whose records has an undefined ratio
C7_Witness ==
    /\ FilterDone /\ status_filter = AllStatuses /\ oee_threshold = Zero
    /\ w_status # {None} /\ w_threshold = 0
    /\ Len(filtered_df.rows) = 2
    /\ \E i \in 1..Len(returned.rows) : IsNaN(returned.rows[i]["Availability"])

CurrentStatuses == IF w_status = {None} THEN AllStatuses ELSE w_status
CurrentPercent == IF w_threshold = -1 THEN 0 ELSE w_threshold
\* x >= percent/100
AtLeastPercent(x, percent) == IsNum(x) /\ x.n * 100 >= percent * x.d
Kept ==
    {i \in 1..Len(df.rows) :
        /\ df.rows[i][STATUS] \in CurrentStatuses
        /\ AtLeastPercent(df.rows[i]["OEE"], CurrentPercent)}

\* C9: after any sequence of filter changes the filtered subset is exactly
\* the records whose Running Status is in the selected set and whose OEE is
\* at least the selected threshold (equality included), in row order; only
\* the current settings of the two widgets count.
C9_FilteredSubsetIsExact ==
    FilterDone
        => /\ Len(filtered_df.rows) = Cardinality(Kept)
           /\ Len(filtered_df.index) = Len(filtered_df.rows)
           /\ \A k \in 1..Len(filtered_df.rows) :
                 /\ filtered_df.index[k] + 1 \in Kept
                 /\ \A c \in Range(df.columns) :
                       filtered_df.rows[k][c] = df.rows[filtered_df.index[k] + 1][c]
           /\ \A k \in 1..(Len(filtered_df.rows) - 1) :
                 filtered_df.index[k] < filtered_df.index[k + 1]

\* both widgets were changed; a record with OEE equal to the threshold is
\* kept and another record is dropped
C9_Witness ==
    /\ FilterDone /\ w_status # {None} /\ w_threshold = 50
    /\ Len(df.rows) = 2 /\ Len(filtered_df.rows) = 1
    /\ filtered_df.rows[1]["OEE"] = Num(1, 2)

\* C10: for every step the selectbox offers, the lookup succeeds and gives
\* the first record in row order whose Steps cell is that value.  (Stated as
\* claimed; a missing Steps cell is offered as well, equals no cell, and
\* .iloc[0] raises IndexError.)
C10_StepLookupNeverFails ==
    ("selectbox" \in rendered /\ selected_step \in Range(unique(Column(df, STEPS))))
        => /\ raised # "IndexError"
           /\ pc # "step"
           /\ step_data =
                df.rows[First({i \in 1..Len(df.rows) : df.rows[i][STEPS] = selected_step})]

=============================================================================
